---- MODULE Spec2Model ----
(***************************************************************************)
(* Model of the TypeScript-to-GraphQL schema generator of src/src/codegen.rs *)
(* (generate_schema and CodeGenCtx).  The translation is a recursive        *)
(* descent over a parsed module that appends definitions to a Schema and    *)
(* threads two position flags through the context.  Every resolver function *)
(* of the source is an operator taking the context and returning the        *)
(* outcome together with the context it leaves behind.                      *)
(*                                                                         *)
(* Strings are sequences of one-character strings, so that the first        *)
(* character of a name can be uppercased as the code does.                  *)
(* Option values are sequences: <<>> is None and <<x>> is Some(x).          *)
(* Outcomes are "ok", "err" (an anyhow error returned through `?`) and      *)
(* "panic" (todo!(), unwrap() on None).                                     *)
(***************************************************************************)
EXTENDS Integers, Sequences, FiniteSets, TLC

VARIABLES prog, manifest, schema, parsing_inputs, parsing_output, idx, result, output

vars == <<prog, manifest, schema, parsing_inputs, parsing_output, idx, result, output>>

\* ------------------------------------------------------------------ strings

LowerChars == <<"a","b","c","d","e","f","g","h","i","j","k","l","m",
                "n","o","p","q","r","s","t","u","v","w","x","y","z">>

UpperChars == <<"A","B","C","D","E","F","G","H","I","J","K","L","M",
                "N","O","P","Q","R","S","T","U","V","W","X","Y","Z">>

\* char::to_ascii_uppercase: 'a'..'z' map to 'A'..'Z', every other character is kept
to_ascii_uppercase(c) ==
    IF \E i \in 1..Len(LowerChars) : LowerChars[i] = c
    THEN UpperChars[CHOOSE i \in 1..Len(LowerChars) : LowerChars[i] = c]
    ELSE c

\* a mutant of upper_camel_case: every character is uppercased
upper_camel_case_all(s) == [i \in 1..Len(s) |-> to_ascii_uppercase(s[i])]

upper_camel_case(s) ==
    IF s = <<>> THEN <<>> ELSE <<to_ascii_uppercase(s[1])>> \o Tail(s)

StrInput == <<"I","n","p","u","t">>
StrOutput == <<"O","u","t","p","u","t">>
StrPromise == <<"P","r","o","m","i","s","e">>
StrString == <<"S","t","r","i","n","g">>
StrInt == <<"I","n","t">>
StrBoolean == <<"B","o","o","l","e","a","n">>

\* ------------------------------------------------------------------ GraphQL types (apollo_encoder::Type_)

NamedType(name) == [t |-> "NamedType", name |-> name]
List(ty) == [t |-> "List", ty |-> ty]
NonNull(ty) == [t |-> "NonNull", ty |-> ty]

\* ------------------------------------------------------------------ outcomes

None == <<>>
Some(x) == <<x>>

Ok(ty, args, ctx) == [st |-> "ok", ty |-> ty, args |-> args, ctx |-> ctx]
Err(msg, ctx) == [st |-> "err", msg |-> msg, ctx |-> ctx]
Panic(ctx) == [st |-> "panic", ctx |-> ctx]

\* ------------------------------------------------------------------ pure helpers

ComputeNameInput(param_name, member_count) ==
    [k |-> "Input", param_name |-> param_name, member_count |-> member_count]
ComputeNameOutput == [k |-> "Output"]

\* a mutant of compute_new_name: the member name is appended whatever the member count
compute_new_name_always_member(kind, field_name) ==
    IF kind.k = "Output"
    THEN upper_camel_case(field_name) \o StrOutput
    ELSE upper_camel_case(field_name) \o StrInput \o upper_camel_case(kind.param_name)

\* a mutant of compute_new_name: the output name does not use the field name
compute_new_name_no_field(kind, field_name) ==
    IF kind.k = "Output"
    THEN StrOutput
    ELSE IF kind.member_count = 1
         THEN upper_camel_case(field_name) \o StrInput
         ELSE upper_camel_case(field_name) \o StrInput
                  \o upper_camel_case(kind.param_name)

compute_new_name(kind, field_name) ==
    IF kind.k = "Output"
    THEN upper_camel_case(field_name) \o StrOutput
    ELSE IF kind.member_count = 1
         THEN upper_camel_case(field_name) \o StrInput
         ELSE upper_camel_case(field_name) \o StrInput
                  \o upper_camel_case(kind.param_name)

\* a mutant of parse_keyword_type: number and string are swapped
parse_keyword_type_swapped(kind) ==
    CASE kind = "number" -> [st |-> "ok", ty |-> NamedType(StrString)]
      [] kind = "string" -> [st |-> "ok", ty |-> NamedType(StrInt)]
      [] kind = "boolean" -> [st |-> "ok", ty |-> NamedType(StrBoolean)]
      [] OTHER -> [st |-> "panic"]

parse_keyword_type(kind) ==
    CASE kind = "number" -> [st |-> "ok", ty |-> NamedType(StrInt)]
      [] kind = "string" -> [st |-> "ok", ty |-> NamedType(StrString)]
      [] kind = "boolean" -> [st |-> "ok", ty |-> NamedType(StrBoolean)]
      [] OTHER -> [st |-> "panic"]

RECURSIVE is_nullable(_)
RECURSIVE is_nullable_union(_)

is_nullable(ty) ==
    CASE ty.k = "union" -> is_nullable_union(ty)
      [] ty.k = "kw" -> ty.kw \in {"null", "undefined"}
      [] OTHER -> FALSE

is_nullable_union(ty) ==
    IF ty.k = "union"
    THEN \E i \in 1..Len(ty.types) : is_nullable(ty.types[i])
    ELSE FALSE

\* the first alternative that is not nullable, or an error when there is none
unwrap_union(uni) ==
    LET hits == {i \in 1..Len(uni.types) : ~is_nullable(uni.types[i])}
    IN  IF hits = {}
        THEN [st |-> "err"]
        ELSE [st |-> "ok",
              ty |-> uni.types[CHOOSE i \in hits : \A j \in hits : i <= j]]

manifest_get(m, name) == IF name \in DOMAIN m THEN Some(m[name]) ELSE None

\* ------------------------------------------------------------------ Schema (apollo_encoder)

Field(name, ty, args) == [name |-> name, type_ |-> ty, args |-> args]
InputField(name, ty) == [name |-> name, type_ |-> ty]
InputValue(name, ty) == [name |-> name, type_ |-> ty]
ObjectDef(name, fields) == [kind |-> "Object", name |-> name, fields |-> fields]
InputObjectDef(name, fields) == [kind |-> "Input", name |-> name, fields |-> fields]

\* a mutant of schema_push: the definition is put in front of the others
schema_push_front(ctx, def) == [ctx EXCEPT !.schema = <<def>> \o @]

\* Schema::object / Schema::input: the definition is appended
schema_push(ctx, def) == [ctx EXCEPT !.schema = Append(@, def)]

\* ------------------------------------------------------------------ the resolver

\* a mutant of finalize: the type is wrapped whatever the optional flag
finalize_always_wraps(r, optional) == Ok(NonNull(r.ty), r.args, r.ctx)

\* a mutant of finalize: the type is never wrapped
finalize_never_wraps(r, optional) == Ok(r.ty, r.args, r.ctx)

\* the end of parse_type: a required type is wrapped in NonNull
finalize(r, optional) ==
    IF ~optional THEN Ok(NonNull(r.ty), r.args, r.ctx) ELSE Ok(r.ty, r.args, r.ctx)

\* a mutant of lookup_type_name: no positional check
lookup_type_name_unchecked(ctx, sym) ==
    LET kind == manifest_get(ctx.manifest, sym)
    IN  IF kind # None
        THEN Ok(NamedType(sym), None, ctx)
        ELSE Err("Undefined type", ctx)

\* a mutant of lookup_type_name: a name missing from the manifest is passed through
lookup_type_name_permissive(ctx, sym) ==
    LET kind == manifest_get(ctx.manifest, sym)
    IN  CASE kind = Some("Object") /\ ctx.parsing_inputs ->
               Err("Field args can only be Inputs", ctx)
          [] kind = Some("Input") /\ ~ctx.parsing_inputs ->
               Err("Field type can't be an Input", ctx)
          [] OTHER -> Ok(NamedType(sym), None, ctx)

\* a mutant of lookup_type_name: an Enum is held to the positional rule of an Object
lookup_type_name_enum_as_object(ctx, sym) ==
    LET kind == manifest_get(ctx.manifest, sym)
    IN  CASE kind \in {Some("Object"), Some("Enum")} /\ ctx.parsing_inputs ->
               Err("Field args can only be Inputs", ctx)
          [] kind = Some("Input") /\ ~ctx.parsing_inputs ->
               Err("Field type can't be an Input", ctx)
          [] kind # None -> Ok(NamedType(sym), None, ctx)
          [] OTHER -> Err("Undefined type", ctx)

\* parse_type_ref for an identifier other than Promise: the manifest lookup
lookup_type_name(ctx, sym) ==
    LET kind == manifest_get(ctx.manifest, sym)
    IN  CASE kind = Some("Object") /\ ctx.parsing_inputs ->
               Err("Field args can only be Inputs", ctx)
          [] kind = Some("Input") /\ ~ctx.parsing_inputs ->
               Err("Field type can't be an Input", ctx)
          [] kind # None -> Ok(NamedType(sym), None, ctx)
          [] OTHER -> Err("Undefined type", ctx)

\* a mutant of promise_fallback_name: the field name is kept
promise_fallback_name_kept(field_name) == field_name

\* the field name parse_type_ref passes on for Promise<X>, X neither a
\* nullable union nor an object literal
promise_fallback_name(field_name) == <<>>

\* a mutant of arg_literal_type: the reference is always required
arg_literal_type_required(name, optional) == NonNull(NamedType(name))

\* the end of parse_arg_type_literal: the reference to the synthesized Input
arg_literal_type(name, optional) ==
    IF ~optional THEN NonNull(NamedType(name)) ELSE NamedType(name)

\* a mutant of return_optional: the property's own flag is passed on
return_optional_passed(optional) == optional

\* the function branch of parse_type: the return type is resolved with
\* optional = true whatever the property's own flag
return_optional(optional) == TRUE

\* a mutant of one_type_parameter: a longer type-parameter list passes
one_type_parameter_or_more(params) == Len(params) >= 1

\* parse_type_ref: match params.len() { 1 => {} other => return Err }
one_type_parameter(params) == Len(params) = 1

\* a mutant of one_parameter: a function type with several parameters is accepted
one_parameter_or_more(params) == Len(params) >= 1

\* the function branch of parse_type: params.len() != 1 is an error
one_parameter(params) == Len(params) = 1

\* a mutant of ParsedField_build: the arguments of an Input field are dropped
ParsedField_build_drops_args(kind, name, ty, args) ==
    IF kind = "Input"
    THEN Some(InputField(name, ty))
    ELSE IF args = None THEN Some(Field(name, ty, <<>>)) ELSE Some(Field(name, ty, args[1]))

\* ParsedField::new and ParsedField::with_args: None when an Input field has arguments
ParsedField_build(kind, name, ty, args) ==
    IF args = None
    THEN IF kind = "Input" THEN Some(InputField(name, ty)) ELSE Some(Field(name, ty, <<>>))
    ELSE IF kind = "Object" THEN Some(Field(name, ty, args[1])) ELSE None

\* The resolver functions call one another; every such call goes through
\* `call`, which dispatches on the name of the function called.
RECURSIVE call(_)

do_parse_type(ctx, field_name, type_ann, optional) ==
    call([f |-> "parse_type", ctx |-> ctx, a |-> field_name, b |-> type_ann, c |-> optional])
do_parse_type_ref(ctx, field_name, type_name, type_params) ==
    call([f |-> "parse_type_ref", ctx |-> ctx, a |-> field_name, b |-> type_name,
          c |-> type_params])
do_parse_arg_member(ctx, field_name, member, member_count) ==
    call([f |-> "parse_arg_member", ctx |-> ctx, a |-> field_name, b |-> member,
          c |-> member_count])
do_parse_arg_members(ctx, field_name, members, member_count, i) ==
    call([f |-> "parse_arg_members", ctx |-> ctx, a |-> field_name, b |-> members,
          c |-> member_count, d |-> i])
do_parse_arg_type_literal(ctx, name, ty, optional) ==
    call([f |-> "parse_arg_type_literal", ctx |-> ctx, a |-> name, b |-> ty, c |-> optional])
do_parse_type_literal(ctx, kind, new_name, ty) ==
    call([f |-> "parse_type_literal", ctx |-> ctx, a |-> kind, b |-> new_name, c |-> ty])
do_parse_typed_fields(ctx, field_kind, type_ann) ==
    call([f |-> "parse_typed_fields", ctx |-> ctx, a |-> field_kind, b |-> type_ann])
do_parse_fields_from(ctx, field_kind, members, i, fields) ==
    call([f |-> "parse_fields_from", ctx |-> ctx, a |-> field_kind, b |-> members,
          c |-> i, d |-> fields])
do_parse_field(ctx, kind, prop_sig) ==
    call([f |-> "parse_field", ctx |-> ctx, a |-> kind, b |-> prop_sig])

parse_type(ctx, field_name, type_ann, optional) ==
    CASE type_ann.k = "kw" ->
           LET r == parse_keyword_type(type_ann.kw)
           IN  IF r.st # "ok" THEN Panic(ctx)
               ELSE finalize(Ok(r.ty, None, ctx), optional)
      [] type_ann.k = "arr" ->
           IF ctx.parsing_output /\ type_ann.elem.k = "lit"
           THEN LET name == compute_new_name(ComputeNameOutput, field_name)
                    r == do_parse_type_literal(ctx, "Object", name, type_ann.elem)
                IN  IF r.st # "ok" THEN r
                    ELSE finalize(Ok(List(NamedType(name)), None, r.ctx), optional)
           ELSE LET r == do_parse_type(ctx, field_name, type_ann.elem, TRUE)
                IN  IF r.st # "ok" THEN r
                    ELSE finalize(Ok(List(r.ty), None, r.ctx), optional)
      [] type_ann.k = "ref" ->
           LET r == do_parse_type_ref(ctx, field_name, type_ann.type_name, type_ann.type_params)
           IN  IF r.st # "ok" THEN r ELSE finalize(r, optional)
      [] type_ann.k = "fn" ->
           IF ~one_parameter(type_ann.params)
           THEN Err("Expected only one parameter for field arg", ctx)
           ELSE LET input == type_ann.params[1]
                    lit == IF input.k = "ident" /\ input.type_ann # None
                              /\ input.type_ann[1].k = "lit"
                           THEN Some(input.type_ann[1])
                           ELSE None
                IN  IF lit = None
                    THEN Err("Type of Field args can only be objects", ctx)
                    ELSE
                    LET member_count == Len(lit[1].members)
                        a == do_parse_arg_members([ctx EXCEPT !.parsing_inputs = TRUE],
                                               field_name, lit[1].members, member_count, 1)
                    IN  IF a.st # "ok" THEN a
                        ELSE
                        LET c2 == [a.ctx EXCEPT !.parsing_inputs = FALSE,
                                                !.parsing_output = TRUE]
                            r == do_parse_type(c2, field_name, type_ann.ret,
                                               return_optional(optional))
                        IN  IF r.st # "ok" THEN r
                            ELSE Ok(r.ty, Some(a.vals),
                                    [r.ctx EXCEPT !.parsing_output = FALSE])
      [] type_ann.k = "union" ->
           LET u == unwrap_union(type_ann)
           IN  IF u.st # "ok"
               THEN Err("No non-nullable type found in union", ctx)
               ELSE do_parse_type(ctx, field_name, u.ty, TRUE)
      [] OTHER -> Panic(ctx)

parse_type_ref(ctx, field_name, type_name, type_params) ==
    IF type_name.k # "ident" THEN Panic(ctx)
    ELSE IF type_name.sym # StrPromise THEN lookup_type_name(ctx, type_name.sym)
    ELSE IF type_params = None THEN Err("Missing type parameter for Promise", ctx)
    ELSE IF ~one_type_parameter(type_params[1])
         THEN Err("Invalid amount of type parameters for Promise", ctx)
    ELSE
    LET typ == type_params[1][1]
    IN  CASE typ.k = "union" /\ is_nullable_union(typ) ->
               LET u == unwrap_union(typ)
               IN  IF u.st # "ok"
                   THEN Err("No non-nullable type found in union", ctx)
                   ELSE IF u.ty.k = "lit"
                   THEN LET name == compute_new_name(ComputeNameOutput, field_name)
                            r == do_parse_type_literal(ctx, "Object", name, u.ty)
                        IN  IF r.st # "ok" THEN r
                            ELSE Ok(NamedType(name), None, r.ctx)
                   ELSE do_parse_type(ctx, field_name, u.ty, TRUE)
          [] typ.k = "lit" ->
               LET name == compute_new_name(ComputeNameOutput, field_name)
                   r == do_parse_type_literal(ctx, "Object", name, typ)
               IN  IF r.st # "ok" THEN r
                   ELSE Ok(NonNull(NamedType(name)), None, r.ctx)
          [] OTHER -> do_parse_type(ctx, promise_fallback_name(field_name), typ, FALSE)

\* lit.members.iter().map(parse_arg_member).collect::<Result<Vec<_>>>(): members
\* from index i on, in order, stopping at the first failure
parse_arg_members(ctx, field_name, members, member_count, i) ==
    IF i > Len(members) THEN [st |-> "ok", vals |-> <<>>, ctx |-> ctx]
    ELSE LET r == do_parse_arg_member(ctx, field_name, members[i], member_count)
         IN  IF r.st # "ok" THEN r
             ELSE LET rest == do_parse_arg_members(r.ctx, field_name, members,
                                                member_count, i + 1)
                  IN  IF rest.st # "ok" THEN rest
                      ELSE [st |-> "ok", vals |-> <<r.val>> \o rest.vals, ctx |-> rest.ctx]

parse_arg_member(ctx, field_name, member, member_count) ==
    IF member.k # "prop" THEN Err("Field args input can only contain properties", ctx)
    ELSE IF member.key.k # "ident" THEN Panic(ctx)
    ELSE IF member.type_ann = None THEN Err("Missing property", ctx)
    ELSE
    LET name == member.key.sym
        ty == member.type_ann[1]
        input_name == compute_new_name(ComputeNameInput(name, member_count), field_name)
        r == CASE ty.k = "lit" ->
                    do_parse_arg_type_literal(ctx, input_name, ty, member.optional)
               [] ty.k = "union" ->
                    IF ~is_nullable_union(ty)
                    THEN Err("Unions as field args must be nullable", ctx)
                    ELSE LET u == unwrap_union(ty)
                         IN  IF u.st # "ok"
                             THEN Err("No non-nullable type found in union", ctx)
                             ELSE IF u.ty.k = "lit"
                             THEN do_parse_arg_type_literal(ctx, input_name, u.ty, TRUE)
                             ELSE do_parse_type(ctx, name, u.ty, TRUE)
               [] OTHER -> do_parse_type(ctx, name, ty, member.optional)
    IN  IF r.st # "ok" THEN r
        ELSE [st |-> "ok", val |-> InputValue(name, r.ty), ctx |-> r.ctx]

parse_arg_type_literal(ctx, name, ty, optional) ==
    LET r == do_parse_type_literal(ctx, "Input", name, ty)
    IN  IF r.st # "ok" THEN r
        ELSE Ok(arg_literal_type(name, optional), None, r.ctx)

parse_type_literal(ctx, kind, new_name, ty) ==
    LET r == do_parse_typed_fields(ctx, kind, ty)
    IN  IF r.st # "ok" THEN r
        ELSE IF kind = "Input"
        THEN [st |-> "ok", ctx |-> schema_push(r.ctx, InputObjectDef(new_name, r.fields))]
        ELSE [st |-> "ok", ctx |-> schema_push(r.ctx, ObjectDef(new_name, r.fields))]

parse_typed_fields(ctx, field_kind, type_ann) ==
    IF type_ann.k # "lit" THEN Panic(ctx)
    ELSE do_parse_fields_from(ctx, field_kind, type_ann.members, 1, <<>>)

\* the loop of parse_typed_fields: members from index i on, fields being those built so far
parse_fields_from(ctx, field_kind, members, i, fields) ==
    IF i > Len(members) THEN [st |-> "ok", fields |-> fields, ctx |-> ctx]
    ELSE IF members[i].k # "prop" THEN Err("Invalid property type", ctx)
    ELSE LET r == do_parse_field(ctx, field_kind, members[i])
         IN  IF r.st # "ok" THEN r
             ELSE do_parse_fields_from(r.ctx, field_kind, members, i + 1,
                                    Append(fields, r.field))

parse_field(ctx, kind, prop_sig) ==
    IF prop_sig.key.k # "ident" THEN Err("Invalid property signature type", ctx)
    ELSE IF prop_sig.type_ann = None THEN Panic(ctx)
    ELSE
    LET key == prop_sig.key.sym
        r == do_parse_type(ctx, key, prop_sig.type_ann[1], prop_sig.optional)
    IN  IF r.st # "ok" THEN r
        ELSE LET f == ParsedField_build(kind, key, r.ty, r.args)
             IN  IF f = None
                 THEN Err("Only ObjectDefs can contain input fields with args", r.ctx)
                 ELSE [st |-> "ok", field |-> f[1], ctx |-> r.ctx]

call(c) ==
    CASE c.f = "parse_type" -> parse_type(c.ctx, c.a, c.b, c.c)
      [] c.f = "parse_type_ref" -> parse_type_ref(c.ctx, c.a, c.b, c.c)
      [] c.f = "parse_arg_member" -> parse_arg_member(c.ctx, c.a, c.b, c.c)
      [] c.f = "parse_arg_members" -> parse_arg_members(c.ctx, c.a, c.b, c.c, c.d)
      [] c.f = "parse_arg_type_literal" -> parse_arg_type_literal(c.ctx, c.a, c.b, c.c)
      [] c.f = "parse_type_literal" -> parse_type_literal(c.ctx, c.a, c.b, c.c)
      [] c.f = "parse_typed_fields" -> parse_typed_fields(c.ctx, c.a, c.b)
      [] c.f = "parse_fields_from" -> parse_fields_from(c.ctx, c.a, c.b, c.c, c.d)
      [] c.f = "parse_field" -> parse_field(c.ctx, c.a, c.b)

\* a mutant of parse_statement: an alias the manifest does not list is
\* translated as an Object
parse_statement_resolves_unlisted(ctx, stmt) ==
    IF stmt.k # "alias" THEN Panic(ctx)
    ELSE
    LET ident == stmt.id
        kind == manifest_get(ctx.manifest, ident)
        fk == IF kind = Some("Input") THEN "Input" ELSE "Object"
        r == do_parse_typed_fields(ctx, fk, stmt.type_ann)
    IN  IF r.st # "ok" THEN r
        ELSE IF fk = "Input"
        THEN [st |-> "ok", ctx |-> schema_push(r.ctx, InputObjectDef(ident, r.fields))]
        ELSE [st |-> "ok", ctx |-> schema_push(r.ctx, ObjectDef(ident, r.fields))]

\* parse_statement: one top-level statement
parse_statement(ctx, stmt) ==
    IF stmt.k # "alias" THEN Panic(ctx)
    ELSE
    LET ident == stmt.id
        kind == manifest_get(ctx.manifest, ident)
    IN  IF kind = None THEN [st |-> "ok", ctx |-> ctx]
        ELSE LET fk == IF kind = Some("Input") THEN "Input" ELSE "Object"
                 r == do_parse_typed_fields(ctx, fk, stmt.type_ann)
             IN  IF r.st # "ok" THEN r
                 ELSE IF fk = "Input"
                 THEN [st |-> "ok", ctx |-> schema_push(r.ctx, InputObjectDef(ident, r.fields))]
                 ELSE [st |-> "ok", ctx |-> schema_push(r.ctx, ObjectDef(ident, r.fields))]

\* Schema::finish: the SDL text, definitions in insertion order
RECURSIVE render_type(_)
render_type(ty) ==
    CASE ty.t = "NamedType" -> ty.name
      [] ty.t = "List" -> <<"[">> \o render_type(ty.ty) \o <<"]">>
      [] ty.t = "NonNull" -> render_type(ty.ty) \o <<"!">>

RECURSIVE render_args(_, _)
render_args(args, i) ==
    IF i > Len(args) THEN <<>>
    ELSE (IF i > 1 THEN <<",", " ">> ELSE <<>>)
         \o args[i].name \o <<":", " ">> \o render_type(args[i].type_)
         \o render_args(args, i + 1)

render_field(def, f) ==
    <<" ", " ">> \o f.name
    \o (IF def.kind = "Object" /\ f.args # <<>>
        THEN <<"(">> \o render_args(f.args, 1) \o <<")">>
        ELSE <<>>)
    \o <<":", " ">> \o render_type(f.type_) \o <<"\n">>

RECURSIVE render_fields(_, _)
render_fields(def, i) ==
    IF i > Len(def.fields) THEN <<>>
    ELSE render_field(def, def.fields[i]) \o render_fields(def, i + 1)

render_def(def) ==
    <<IF def.kind = "Object" THEN "type" ELSE "input", " ">> \o def.name
    \o <<" ", "{", "\n">> \o render_fields(def, 1) \o <<"}", "\n">>

RECURSIVE schema_finish_from(_, _)
schema_finish_from(s, i) ==
    IF i > Len(s) THEN <<>> ELSE render_def(s[i]) \o schema_finish_from(s, i + 1)

schema_finish(s) == schema_finish_from(s, 1)

\* ------------------------------------------------------------------ the parsed module (swc AST)

Ident(sym) == [k |-> "ident", sym |-> sym]
Kw(kw) == [k |-> "kw", kw |-> kw]
Arr(elem) == [k |-> "arr", elem |-> elem]
Ref(sym) == [k |-> "ref", type_name |-> Ident(sym), type_params |-> None]
RefP(sym, params) == [k |-> "ref", type_name |-> Ident(sym), type_params |-> Some(params)]
QualifiedRef == [k |-> "ref", type_name |-> [k |-> "qualified"], type_params |-> None]
Promise(ty) == RefP(StrPromise, <<ty>>)
Union(types) == [k |-> "union", types |-> types]
Intersection(types) == [k |-> "intersection", types |-> types]
Lit(members) == [k |-> "lit", members |-> members]
Prop(key, optional, ty) ==
    [k |-> "prop", key |-> Ident(key), optional |-> optional, type_ann |-> Some(ty)]
PropNoType(key) ==
    [k |-> "prop", key |-> Ident(key), optional |-> FALSE, type_ann |-> None]
MethodSig == [k |-> "method"]
Param(ty) == [k |-> "ident", type_ann |-> Some(ty)]
ParamNoType == [k |-> "ident", type_ann |-> None]
RestParam == [k |-> "rest"]
Fn(params, ret) == [k |-> "fn", params |-> params, ret |-> ret]
Alias(id, ty) == [k |-> "alias", id |-> id, type_ann |-> ty]
ExprStmt == [k |-> "expr"]
ModuleDecl == [k |-> "module_decl"]

Null == Kw("null")
Undefined == Kw("undefined")
Nullable(ty) == Union(<<ty, Null>>)

\* ------------------------------------------------------------------ the inputs

\* bounds of the input space
MaxStmts == 2
MaxArrayDepth == 2
MaxMembers == 3

\* type names
TU == <<"U">>
TQ == <<"Q">>
TM == <<"M">>
TA == <<"A">>
TE == <<"E">>
TX == <<"X">>
TFoInput == <<"F","o","I","n","p","u","t">>

\* property and member names
NFo == <<"f","o">>
NG == <<"g">>
NHi == <<"H","i">>
NId == <<"i","d">>
NOk == <<"o","k">>
FieldNames == {NFo, NG, NHi}
MemberNames == << <<"m">>, <<"n","a">>, <<"k">>, <<"j","x">> >>

BaseManifest ==
    (TU :> "Object") @@ (TQ :> "Object") @@ (TM :> "Object") @@ (TA :> "Input")
    @@ (TE :> "Enum") @@ (TFoInput :> "Input")

AltManifest ==
    (TU :> "Input") @@ (TQ :> "Enum") @@ (TM :> "Object") @@ (TA :> "Object")
    @@ (TX :> "Enum") @@ (TFoInput :> "Object") @@ (StrPromise :> "Enum")

Manifests == {BaseManifest, AltManifest}

String == Kw("string")
Number == Kw("number")
Boolean == Kw("boolean")

ScalarTypes == {String, Number, Boolean}
RefTypes == {Ref(TU), Ref(TA), Ref(TE), Ref(TX)}
BaseTypes == ScalarTypes \cup RefTypes

RECURSIVE ArraysOf(_, _)
ArraysOf(S, d) == IF d = 0 THEN S ELSE S \cup {Arr(t) : t \in ArraysOf(S, d - 1)}

InLit == Lit(<<Prop(NId, TRUE, String)>>)
InLit2 == Lit(<<Prop(NId, FALSE, String), Prop(NOk, TRUE, Arr(Ref(TA)))>>)
OutLit == Lit(<<Prop(NId, FALSE, Ref(TU)), Prop(NOk, FALSE, Boolean)>>)
OneArg == <<Param(Lit(<<Prop(MemberNames[1], FALSE, String)>>))>>

\* an argument literal with a function-typed property
InFnLit == Lit(<<Prop(NG, FALSE, Fn(OneArg, Promise(String)))>>)

\* a function-typed field nested in the literal a function returns
NestedFnLit ==
    Lit(<<Prop(NG, FALSE, Fn(<<Param(Lit(<<Prop(MemberNames[1], FALSE, InLit)>>))>>,
                             Promise(OutLit))),
          Prop(NOk, TRUE, Arr(OutLit))>>)

\* the same with the array property first, so that it is resolved in output position
NestedOkLit ==
    Lit(<<Prop(NOk, TRUE, Arr(OutLit)),
          Prop(NG, FALSE, Fn(<<Param(Lit(<<Prop(MemberNames[1], FALSE, InLit)>>))>>,
                             Promise(OutLit)))>>)

UnsupportedTypes ==
    {Kw("any"), OutLit, Arr(OutLit), Intersection(<<Ref(TU), Ref(TE)>>), QualifiedRef,
     Ref(StrPromise), RefP(StrPromise, <<>>), RefP(StrPromise, <<String, String>>)}

UnionTypes ==
    {Nullable(t) : t \in ArraysOf(BaseTypes, 1)}
    \cup {Union(<<Undefined, Ref(TU)>>), Union(<<Ref(TU), String>>),
          Union(<<Ref(TU), String, Null>>), Union(<<Null, Undefined>>),
          Union(<<Number, Null, Undefined>>), Nullable(Promise(String))}

PromiseTypes ==
    {Promise(t) : t \in BaseTypes \cup {Nullable(b) : b \in BaseTypes}
                        \cup {Arr(String), Arr(Ref(TU)), Nullable(Arr(Ref(TU))),
                              OutLit, Nullable(OutLit), Arr(OutLit), Nullable(Arr(OutLit)),
                              Union(<<Ref(TU), Undefined>>), Union(<<Null, Undefined>>),
                              Union(<<Ref(TU), String>>), Promise(String)}}

\* the types a property of a top-level declaration is given
PropertyTypes ==
    ArraysOf(BaseTypes \cup {Promise(String)}, MaxArrayDepth)
    \cup UnionTypes \cup PromiseTypes \cup UnsupportedTypes

PropertyStmts ==
    {Alias(d, Lit(<<Prop(n, o, t)>>)) :
        d \in {TQ, TA, TX}, n \in {NFo}, o \in BOOLEAN, t \in PropertyTypes}
    \cup {Alias(TQ, Lit(<<PropNoType(NFo)>>)), Alias(TQ, Lit(<<MethodSig>>)),
          Alias(TQ, Lit(<<[k |-> "prop", key |-> [k |-> "computed"], optional |-> FALSE,
                           type_ann |-> Some(String)]>>)),
          Alias(TQ, String), Alias(TX, String), Alias(TQ, Lit(<<>>)),
          Alias(TA, Lit(<<Prop(NFo, FALSE, Ref(TFoInput))>>)),
          Alias(TA, Lit(<<Prop(NFo, TRUE, Arr(Ref(TFoInput)))>>))}

\* the types a member of a function parameter's object literal is given
ArgMemberTypes ==
    {String, Ref(TA), Ref(TU), Ref(TE), Ref(TX), Arr(Ref(TA)), Arr(Ref(TU)), Arr(Number),
     InLit, InLit2, Nullable(InLit), Nullable(Number), Nullable(Ref(TA)), Nullable(Ref(TU)),
     Union(<<Ref(TA), String>>), Union(<<Ref(TA), String, Null>>),
     Union(<<Null, Undefined>>), Arr(InLit),
     Promise(String), Promise(Nullable(String)),
     Fn(OneArg, Promise(String)), Kw("any"), InFnLit,
     Ref(StrPromise), RefP(StrPromise, <<String, String>>)}

ArgCombos == {[ty |-> t, optional |-> o] : t \in ArgMemberTypes, o \in BOOLEAN}

SmallArgCombos ==
    {[ty |-> InLit, optional |-> FALSE], [ty |-> InLit2, optional |-> TRUE],
     [ty |-> Number, optional |-> TRUE], [ty |-> Nullable(InLit), optional |-> FALSE],
     [ty |-> Fn(OneArg, Promise(String)), optional |-> FALSE],
     [ty |-> Ref(TU), optional |-> FALSE]}

MembersOf(g) == [i \in DOMAIN g |-> Prop(MemberNames[i], g[i].optional, g[i].ty)]

ArgLists ==
    {MembersOf(g) : g \in [1..1 -> ArgCombos]}
    \cup UNION {{MembersOf(g) : g \in [1..n -> SmallArgCombos]} : n \in 2..MaxMembers}
    \cup {<<>>, <<MethodSig>>, <<PropNoType(MemberNames[1])>>,
          <<[k |-> "prop", key |-> [k |-> "computed"], optional |-> FALSE,
             type_ann |-> Some(String)]>>,
          <<Prop(MemberNames[1], FALSE, InLit), MethodSig>>}

FnArgStmts ==
    {Alias(TQ, Lit(<<Prop(NFo, FALSE, Fn(<<Param(Lit(args))>>, Promise(Ref(TE))))>>)) :
        args \in ArgLists}

\* the return types a function-typed field is given
ReturnTypes ==
    PromiseTypes
    \cup {String, Ref(TU), Ref(TA), Ref(TE), Arr(Ref(TU)), Arr(OutLit), Arr(Arr(OutLit)),
          Nullable(Ref(TU)), Nullable(Arr(OutLit)), OutLit, Promise(NestedFnLit),
          Promise(Arr(NestedFnLit)), Promise(NestedOkLit),
          Ref(StrPromise), RefP(StrPromise, <<String, Ref(TU)>>),
          Promise(RefP(StrPromise, <<>>))}

FnReturnStmts ==
    {Alias(TQ, Lit(<<Prop(n, o, Fn(OneArg, r))>>)) :
        n \in FieldNames, o \in BOOLEAN, r \in ReturnTypes}

FnShapeStmts ==
    {Alias(d, Lit(<<Prop(NFo, FALSE, Fn(ps, Promise(String)))>>)) :
        d \in {TQ, TA},
        ps \in {<<>>, OneArg, OneArg \o OneArg, <<RestParam>>, <<ParamNoType>>,
                <<Param(Ref(TA))>>, <<Param(String)>>}}
    \cup {Alias(TFoInput,
                Lit(<<Prop(NFo, FALSE,
                           Fn(<<Param(Lit(<<Prop(MemberNames[1], FALSE, InLit)>>))>>,
                              Promise(String)))>>))}

WideStmts == PropertyStmts \cup FnArgStmts \cup FnReturnStmts \cup FnShapeStmts

\* the statements of the modules with several declarations
DeepStmts ==
    {Alias(TU, Lit(<<Prop(NId, FALSE, String)>>)),
     Alias(TQ, Lit(<<Prop(NFo, FALSE,
                          Fn(<<Param(Lit(<<Prop(MemberNames[1], FALSE, InLit)>>))>>,
                             Promise(Ref(TU))))>>)),
     Alias(TM, Lit(<<Prop(NFo, TRUE,
                          Fn(<<Param(Lit(<<Prop(MemberNames[2], TRUE, InLit2)>>))>>,
                             Promise(OutLit)))>>)),
     Alias(TFoInput, Lit(<<Prop(NId, TRUE, String)>>)),
     Alias(TQ, Lit(<<Prop(NFo, FALSE,
                          Fn(<<Param(Lit(<<Prop(MemberNames[1], FALSE, InLit),
                                           Prop(MemberNames[2], TRUE, InLit2)>>))>>,
                             Promise(Nullable(Arr(OutLit))))),
                     Prop(NG, TRUE,
                          Fn(<<Param(Lit(<<Prop(MemberNames[1], FALSE, InLit)>>))>>,
                             Promise(OutLit))),
                     Prop(NOk, TRUE, Boolean)>>)),
     Alias(TA, Lit(<<Prop(NId, FALSE, String), Prop(NOk, TRUE, Number),
                     Prop(NG, TRUE, Arr(Number))>>)),
     Alias(TX, Lit(<<Prop(NId, FALSE, Ref(TA))>>)),
     Alias(TM, Lit(<<Prop(NId, FALSE, Ref(TU)), Prop(NOk, TRUE, Arr(Ref(TE)))>>)),
     Alias(TE, Lit(<<Prop(NId, FALSE, Number)>>)),
     Alias(TQ, Lit(<<Prop(NId, FALSE, String), Prop(NOk, FALSE, Ref(TA))>>)),
     Alias(TQ, Lit(<<Prop(NFo, FALSE, Fn(OneArg, Promise(Nullable(Ref(TU))))),
                     Prop(NG, FALSE, Fn(OneArg, Promise(Ref(TU))))>>)),
     Alias(TM, Lit(<<Prop(NOk, TRUE, Ref(TX))>>)),
     ModuleDecl,
     ExprStmt}

RECURSIVE SeqsUpTo(_, _)
SeqsUpTo(S, n) ==
    IF n = 0 THEN {<<>>}
    ELSE LET shorter == SeqsUpTo(S, n - 1)
         IN  shorter \cup {Append(q, x) : q \in {r \in shorter : Len(r) = n - 1}, x \in S}

Progs == {<<s>> : s \in WideStmts} \cup SeqsUpTo(DeepStmts, MaxStmts)

\* ------------------------------------------------------------------ the driver

Ctx == [schema |-> schema, manifest |-> manifest,
        parsing_inputs |-> parsing_inputs, parsing_output |-> parsing_output]

\* CodeGenCtx::new, with the module and the manifest generate_schema is given
Init ==
    /\ prog \in Progs
    /\ manifest \in Manifests
    /\ schema = <<>>
    /\ parsing_inputs = FALSE
    /\ parsing_output = FALSE
    /\ idx = 0
    /\ result = "running"
    /\ output = None

\* CodeGenCtx::parse, one item: a statement that parse_statement accepts
ParseStatementOk ==
    /\ result = "running"
    /\ idx < Len(prog)
    /\ prog[idx + 1].k # "module_decl"
    /\ LET r == parse_statement(Ctx, prog[idx + 1])
       IN  /\ r.st = "ok"
           /\ schema' = r.ctx.schema
           /\ parsing_inputs' = r.ctx.parsing_inputs
           /\ parsing_output' = r.ctx.parsing_output
    /\ idx' = idx + 1
    /\ UNCHANGED <<prog, manifest, result, output>>

\* a mutant of ParseStatementErr: the text of the definitions appended before
\* the error is handed to the caller with the error
ParseStatementErr_partial_text ==
    /\ result = "running"
    /\ idx < Len(prog)
    /\ prog[idx + 1].k # "module_decl"
    /\ LET r == parse_statement(Ctx, prog[idx + 1])
       IN  /\ r.st = "err"
           /\ schema' = r.ctx.schema
           /\ parsing_inputs' = r.ctx.parsing_inputs
           /\ parsing_output' = r.ctx.parsing_output
           /\ output' = Some(schema_finish(r.ctx.schema))
    /\ result' = "err"
    /\ UNCHANGED <<prog, manifest, idx>>

\* CodeGenCtx::parse, one item: parse_statement returns an error, which
\* generate_schema returns to its caller
ParseStatementErr ==
    /\ result = "running"
    /\ idx < Len(prog)
    /\ prog[idx + 1].k # "module_decl"
    /\ LET r == parse_statement(Ctx, prog[idx + 1])
       IN  /\ r.st = "err"
           /\ schema' = r.ctx.schema
           /\ parsing_inputs' = r.ctx.parsing_inputs
           /\ parsing_output' = r.ctx.parsing_output
    /\ result' = "err"
    /\ UNCHANGED <<prog, manifest, idx, output>>

\* CodeGenCtx::parse, one item: parse_statement panics (todo!(), unwrap())
ParseStatementPanic ==
    /\ result = "running"
    /\ idx < Len(prog)
    /\ prog[idx + 1].k # "module_decl"
    /\ LET r == parse_statement(Ctx, prog[idx + 1])
       IN  /\ r.st = "panic"
           /\ schema' = r.ctx.schema
           /\ parsing_inputs' = r.ctx.parsing_inputs
           /\ parsing_output' = r.ctx.parsing_output
    /\ result' = "panic"
    /\ UNCHANGED <<prog, manifest, idx, output>>

\* CodeGenCtx::parse, one item: ModuleItem::ModuleDecl is passed over
SkipModuleDecl ==
    /\ result = "running"
    /\ idx < Len(prog)
    /\ prog[idx + 1].k = "module_decl"
    /\ idx' = idx + 1
    /\ UNCHANGED <<prog, manifest, schema, parsing_inputs, parsing_output, result, output>>

\* generate_schema after the loop: Ok(ctx.finish())
Finish ==
    /\ result = "running"
    /\ idx = Len(prog)
    /\ result' = "ok"
    /\ output' = Some(schema_finish(schema))
    /\ UNCHANGED <<prog, manifest, schema, parsing_inputs, parsing_output, idx>>

Next ==
    \/ ParseStatementOk
    \/ ParseStatementErr
    \/ ParseStatementPanic
    \/ SkipModuleDecl
    \/ Finish

Spec == Init /\ [][Next]_vars

\* ------------------------------------------------------------------ properties

\* the last item the driver passed was a declaration the manifest lists, and
\* parse_statement accepted it: its own definition is the last of the schema
LastDeclared ==
    /\ idx >= 1
    /\ result \in {"running", "ok"}
    /\ prog[idx].k = "alias"
    /\ prog[idx].id \in DOMAIN manifest

LastDecl == prog[idx]
LastDef == schema[Len(schema)]
LastMembers == LastDecl.type_ann.members

IsPrimitive(ty) == ty.k = "kw" /\ ty.kw \in {"string", "number", "boolean"}
IsManifestRef(ty) ==
    /\ ty.k = "ref"
    /\ ty.type_name.k = "ident"
    /\ ty.type_name.sym # StrPromise
    /\ ty.type_name.sym \in DOMAIN manifest

\* the GraphQL scalar the specification gives a primitive keyword
ScalarOf(kw) ==
    CASE kw = "string" -> <<"S","t","r","i","n","g">>
      [] kw = "number" -> <<"I","n","t">>
      [] kw = "boolean" -> <<"B","o","o","l","e","a","n">>

\* the nullable GraphQL type of a primitive, a manifest name, or arrays of them
RECURSIVE BareType(_)
BareType(ty) ==
    CASE ty.k = "kw" -> [t |-> "NamedType", name |-> ScalarOf(ty.kw)]
      [] ty.k = "ref" -> [t |-> "NamedType", name |-> ty.type_name.sym]
      [] ty.k = "arr" -> [t |-> "List", ty |-> BareType(ty.elem)]

RECURSIVE IsArrayOfNames(_)
IsArrayOfNames(ty) ==
    CASE ty.k = "arr" -> IsArrayOfNames(ty.elem)
      [] OTHER -> IsPrimitive(ty) \/ IsManifestRef(ty)

\* C1: a primitive property of a manifest-listed declaration becomes
\* String, Int or Boolean, wrapped in exactly one NonNull when the property is
\* required and not wrapped when it is optional
C1_PrimitiveFieldTypes ==
    LastDeclared =>
        \A j \in 1..Len(LastMembers) :
            LET m == LastMembers[j]
            IN  IsPrimitive(m.type_ann[1]) =>
                    LastDef.fields[j].type_ =
                        IF m.optional
                        THEN [t |-> "NamedType", name |-> ScalarOf(m.type_ann[1].kw)]
                        ELSE [t |-> "NonNull",
                              ty |-> [t |-> "NamedType",
                                      name |-> ScalarOf(m.type_ann[1].kw)]]

C1_Witness ==
    /\ LastDeclared
    /\ manifest[LastDecl.id] \in {"Object", "Input"}
    /\ \E j, k \in 1..Len(LastMembers) :
          /\ IsPrimitive(LastMembers[j].type_ann[1]) /\ ~LastMembers[j].optional
          /\ LastDef.fields[j].type_.t = "NonNull"
          /\ IsPrimitive(LastMembers[k].type_ann[1]) /\ LastMembers[k].optional
          /\ LastDef.fields[k].type_.t = "NamedType"

\* C2: a property of array type over a primitive or a manifest name becomes
\* one List per array level around the bare element type, and only the
\* outermost List is wrapped in NonNull, exactly when the property is required
C2_ArrayFieldTypes ==
    LastDeclared =>
        \A j \in 1..Len(LastMembers) :
            LET m == LastMembers[j]
            IN  (m.type_ann[1].k = "arr" /\ IsArrayOfNames(m.type_ann[1])) =>
                    LastDef.fields[j].type_ =
                        IF m.optional
                        THEN BareType(m.type_ann[1])
                        ELSE [t |-> "NonNull", ty |-> BareType(m.type_ann[1])]

C2_Witness ==
    /\ LastDeclared
    /\ \E j \in 1..Len(LastMembers) :
          /\ LastMembers[j].type_ann[1].k = "arr"
          /\ LastMembers[j].type_ann[1].elem.k = "arr"
          /\ IsManifestRef(LastMembers[j].type_ann[1].elem.elem)
          /\ ~LastMembers[j].optional
          /\ LastDef.fields[j].type_.t = "NonNull"
          /\ LastDef.fields[j].type_.ty.ty.t = "List"

IsNullKeyword(ty) == ty.k = "kw" /\ ty.kw \in {"null", "undefined"}

\* T | null, T | undefined: one alternative that is a type, the others null or undefined
IsNullableOf(ty) ==
    /\ ty.k = "union"
    /\ Cardinality({i \in 1..Len(ty.types) : ~IsNullKeyword(ty.types[i])}) = 1
    /\ \E i \in 1..Len(ty.types) : IsNullKeyword(ty.types[i])

TheType(ty) == ty.types[CHOOSE i \in 1..Len(ty.types) : ~IsNullKeyword(ty.types[i])]

IsPromiseOf(ty) ==
    /\ ty.k = "ref"
    /\ ty.type_name.k = "ident"
    /\ ty.type_name.sym = StrPromise
    /\ ty.type_params # <<>>
    /\ Len(ty.type_params[1]) = 1

Promised(ty) == ty.type_params[1][1]

\* a function type with one parameter annotated with an object literal
IsFieldFn(ty) ==
    /\ ty.k = "fn"
    /\ Len(ty.params) = 1
    /\ ty.params[1].k = "ident"
    /\ ty.params[1].type_ann # <<>>
    /\ ty.params[1].type_ann[1].k = "lit"

ArgMembers(ty) == ty.params[1].type_ann[1].members

RECURSIVE RefersToKind(_, _)
RefersToKind(ty, kind) ==
    CASE ty.k = "arr" -> RefersToKind(ty.elem, kind)
      [] OTHER -> IsManifestRef(ty) /\ manifest[ty.type_name.sym] = kind

\* the same, also through Promise
RECURSIVE RefersToKindPromised(_, _)
RefersToKindPromised(ty, kind) ==
    CASE ty.k = "arr" -> RefersToKindPromised(ty.elem, kind)
      [] IsPromiseOf(ty) -> RefersToKindPromised(Promised(ty), kind)
      [] OTHER -> IsManifestRef(ty) /\ manifest[ty.type_name.sym] = kind

InputAsFieldType(m) ==
    LET ty == m.type_ann[1]
    IN  \/ RefersToKindPromised(ty, "Input")
        \/ ty.k = "fn" /\ RefersToKindPromised(ty.ret, "Input")

ObjectAsArgument(m) ==
    LET ty == m.type_ann[1]
    IN  /\ IsFieldFn(ty)
        /\ \E i \in 1..Len(ArgMembers(ty)) :
              /\ ArgMembers(ty)[i].k = "prop"
              /\ ArgMembers(ty)[i].type_ann # <<>>
              /\ RefersToKind(ArgMembers(ty)[i].type_ann[1], "Object")

\* C4: a declaration that uses an Input name as a field or return type, or an
\* Object name as the type of an argument member, is never accepted
C4_PositionalViolationsFail ==
    LastDeclared =>
        \A j \in 1..Len(LastMembers) :
            ~InputAsFieldType(LastMembers[j]) /\ ~ObjectAsArgument(LastMembers[j])

\* C4, the half the code keeps: an Input name as a field or return type is never accepted
C4_InputAsFieldTypeFails ==
    LastDeclared => \A j \in 1..Len(LastMembers) : ~InputAsFieldType(LastMembers[j])

\* no two declarations of the module have the same name
DistinctDeclarations ==
    \A i, j \in 1..Len(prog) :
        (i # j /\ prog[i].k = "alias" /\ prog[j].k = "alias") => prog[i].id # prog[j].id

\* C5: the definitions of a successful translation of a module whose
\* declarations have distinct names have distinct names
C5_UniqueDefinitionNames ==
    (result = "ok" /\ DistinctDeclarations) =>
        \A i, j \in 1..Len(schema) : i # j => schema[i].name # schema[j].name

\* every GraphQL type of a definition: its fields' types and their arguments' types
TypesOfDef(def) ==
    {def.fields[i].type_ : i \in 1..Len(def.fields)}
    \cup (IF def.kind = "Object"
          THEN UNION {{def.fields[i].args[a].type_ : a \in 1..Len(def.fields[i].args)} :
                        i \in 1..Len(def.fields)}
          ELSE {})

SchemaTypes == UNION {TypesOfDef(schema[i]) : i \in 1..Len(schema)}

RECURSIVE HasNestedNonNull(_)
HasNestedNonNull(ty) ==
    CASE ty.t = "NamedType" -> FALSE
      [] ty.t = "List" -> HasNestedNonNull(ty.ty)
      [] ty.t = "NonNull" -> ty.ty.t = "NonNull" \/ HasNestedNonNull(ty.ty)

\* C6: in a successful translation no NonNull directly wraps a NonNull
C6_NoNestedNonNull ==
    result = "ok" => \A ty \in SchemaTypes : ~HasNestedNonNull(ty)

RECURSIVE InnermostName(_)
InnermostName(ty) == IF ty.t = "NamedType" THEN ty.name ELSE InnermostName(ty.ty)

BuiltinScalars ==
    {<<"S","t","r","i","n","g">>, <<"I","n","t">>, <<"B","o","o","l","e","a","n">>}

DeclaredNames == {prog[i].id : i \in {n \in 1..Len(prog) : prog[n].k = "alias"}}

\* C7: every name a successful translation refers to is a built-in scalar, a
\* definition of the schema, or a declaration of the module that the manifest lists
C7_NoDanglingNames ==
    result = "ok" =>
        \A ty \in SchemaTypes :
            \/ InnermostName(ty) \in BuiltinScalars
            \/ \E i \in 1..Len(schema) : schema[i].name = InnermostName(ty)
            \/ InnermostName(ty) \in DeclaredNames \cap DOMAIN manifest

\* the names of this model with their first character in upper case
Capitalized ==
    (NFo :> <<"F","o">>) @@ (NG :> <<"G">>) @@ (NHi :> <<"H","i">>)
    @@ (NId :> <<"I","d">>) @@ (NOk :> <<"O","k">>)
    @@ (<<"m">> :> <<"M">>) @@ (<<"n","a">> :> <<"N","a">>) @@ (<<"k">> :> <<"K">>)
    @@ (<<"j","x">> :> <<"J","x">>)

IsLiteralMember(m) == m.k = "prop" /\ m.type_ann # <<>> /\ m.type_ann[1].k = "lit"

KeyNames(members) == [i \in 1..Len(members) |-> members[i].key.sym]
FieldNamesOf(def) == [i \in 1..Len(def.fields) |-> def.fields[i].name]

ExpectedInputName(f, members, i) ==
    IF Len(members) = 1
    THEN Capitalized[f] \o <<"I","n","p","u","t">>
    ELSE Capitalized[f] \o <<"I","n","p","u","t">> \o Capitalized[members[i].key.sym]

\* C8: the Input synthesized for an object-literal member of the parameter of
\* function field f is named F+"Input" when the parameter has one member and
\* F+"Input"+Member when it has more, F and Member being the names with their
\* first character in upper case
C8_InputNames ==
    LastDeclared =>
        \A j \in 1..Len(LastMembers) :
            LET ty == LastMembers[j].type_ann[1]
                f == LastMembers[j].key.sym
            IN  IsFieldFn(ty) =>
                    \A i \in 1..Len(ArgMembers(ty)) :
                        IsLiteralMember(ArgMembers(ty)[i]) =>
                            LET expected == ExpectedInputName(f, ArgMembers(ty), i)
                            IN  /\ InnermostName(LastDef.fields[j].args[i].type_) = expected
                                /\ \E d \in 1..Len(schema) :
                                      /\ schema[d].kind = "Input"
                                      /\ schema[d].name = expected
                                      /\ FieldNamesOf(schema[d]) =
                                             KeyNames(ArgMembers(ty)[i].type_ann[1].members)

C8_Witness ==
    /\ LastDeclared
    /\ \E j, k \in 1..Len(LastMembers) :
          /\ IsFieldFn(LastMembers[j].type_ann[1])
          /\ Len(ArgMembers(LastMembers[j].type_ann[1])) = 1
          /\ IsLiteralMember(ArgMembers(LastMembers[j].type_ann[1])[1])
          /\ IsFieldFn(LastMembers[k].type_ann[1])
          /\ Len(ArgMembers(LastMembers[k].type_ann[1])) >= 2
          /\ IsLiteralMember(ArgMembers(LastMembers[k].type_ann[1])[2])
          /\ \E d \in 1..Len(schema) :
                schema[d].name = <<"F","o","I","n","p","u","t","N","a">>
          /\ \E d \in 1..Len(schema) : schema[d].name = <<"G","I","n","p","u","t">>

\* the four return shapes that hold an object literal
ReturnsLiteral(ret) ==
    /\ IsPromiseOf(ret)
    /\ LET x == Promised(ret)
       IN  \/ x.k = "lit"
           \/ IsNullableOf(x) /\ TheType(x).k = "lit"
           \/ x.k = "arr" /\ x.elem.k = "lit"
           \/ IsNullableOf(x) /\ TheType(x).k = "arr" /\ TheType(x).elem.k = "lit"

OutputNamedAfterField(j) ==
    LET expected == Capitalized[LastMembers[j].key.sym] \o <<"O","u","t","p","u","t">>
    IN  /\ InnermostName(LastDef.fields[j].type_) = expected
        /\ \E d \in 1..Len(schema) : schema[d].kind = "Object" /\ schema[d].name = expected

\* C9: the Object synthesized for the object literal in the return type of
\* function field f is named F+"Output" in all four return shapes
C9_OutputNames ==
    LastDeclared =>
        \A j \in 1..Len(LastMembers) :
            LET ty == LastMembers[j].type_ann[1]
            IN  (IsFieldFn(ty) /\ ReturnsLiteral(ty.ret)) => OutputNamedAfterField(j)

\* C9 without the shape Promise<{..}[]>
C9_OutputNamesButPromisedArray ==
    LastDeclared =>
        \A j \in 1..Len(LastMembers) :
            LET ty == LastMembers[j].type_ann[1]
            IN  (IsFieldFn(ty) /\ ReturnsLiteral(ty.ret) /\ Promised(ty.ret).k # "arr")
                    => OutputNamedAfterField(j)

\* what the order of a definition shows: its kind, its fields' names and,
\* for each field, its arguments' names
ShapeOf(def) ==
    [kind |-> def.kind,
     fields |-> FieldNamesOf(def),
     args |-> [i \in 1..Len(def.fields) |->
                  IF def.kind = "Object"
                  THEN [a \in 1..Len(def.fields[i].args) |-> def.fields[i].args[a].name]
                  ELSE <<>>]]

LitShape(lit, kind) ==
    [kind |-> kind,
     fields |-> KeyNames(lit.members),
     args |-> [i \in 1..Len(lit.members) |->
                  IF kind = "Object" /\ IsFieldFn(lit.members[i].type_ann[1])
                  THEN KeyNames(ArgMembers(lit.members[i].type_ann[1]))
                  ELSE <<>>]]

\* the definitions synthesized for a type, in the order C10 states: for a
\* function the Inputs of its argument members in member order, then the Output
\* of its return type; for an object literal the definitions of its properties
\* in property order, then its own
RECURSIVE DefsOfType(_)
RECURSIVE DefsOfMembers(_, _)
RECURSIVE DefsOfProps(_, _)

DefsOfType(ty) ==
    CASE ty.k = "fn" ->
           (IF IsFieldFn(ty) THEN DefsOfMembers(ArgMembers(ty), 1) ELSE <<>>)
           \o DefsOfType(ty.ret)
      [] ty.k = "arr" -> DefsOfType(ty.elem)
      [] IsPromiseOf(ty) -> DefsOfType(Promised(ty))
      [] IsNullableOf(ty) -> DefsOfType(TheType(ty))
      [] ty.k = "lit" -> DefsOfProps(ty.members, 1) \o <<LitShape(ty, "Object")>>
      [] OTHER -> <<>>

DefsOfMembers(members, i) ==
    IF i > Len(members) THEN <<>>
    ELSE LET ty == members[i].type_ann[1]
         IN  (CASE ty.k = "lit" ->
                     DefsOfProps(ty.members, 1) \o <<LitShape(ty, "Input")>>
                [] IsNullableOf(ty) /\ TheType(ty).k = "lit" ->
                     DefsOfProps(TheType(ty).members, 1)
                     \o <<LitShape(TheType(ty), "Input")>>
                [] OTHER -> DefsOfType(ty))
             \o DefsOfMembers(members, i + 1)

DefsOfProps(members, i) ==
    IF i > Len(members) THEN <<>>
    ELSE DefsOfType(members[i].type_ann[1]) \o DefsOfProps(members, i + 1)

DefsOfDecl(decl) ==
    DefsOfProps(decl.type_ann.members, 1)
    \o <<LitShape(decl.type_ann,
                  IF manifest[decl.id] = "Input" THEN "Input" ELSE "Object")>>

\* C10: accepting a manifest-listed declaration keeps the definitions already
\* in the schema and appends, in this order, the Inputs and Outputs synthesized
\* for its fields (field order, then member order, an Output after the Inputs
\* of its field) and last the declaration's own definition
C10_DefinitionOrder ==
    [][(/\ result = "running"
        /\ idx' = idx + 1
        /\ prog[idx + 1].k = "alias"
        /\ prog[idx + 1].id \in DOMAIN manifest)
       => LET expected == DefsOfDecl(prog[idx + 1])
          IN  /\ Len(schema') = Len(schema) + Len(expected)
              /\ \A i \in 1..Len(schema) : schema'[i] = schema[i]
              /\ \A i \in 1..Len(expected) :
                    ShapeOf(schema'[Len(schema) + i]) = expected[i]
              /\ schema'[Len(schema')].name = prog[idx + 1].id]_vars

C10_Witness ==
    /\ LastDeclared
    /\ Len(LastMembers) >= 2
    /\ [i \in 1..Len(schema) |-> schema[i].kind]
           = <<"Object", "Input", "Input", "Object", "Input", "Object", "Object">>

\* C11: the translation is fail-fast: the step in which a declaration fails
\* hands out no text and passes no later item, and after it nothing changes
\* any more (no later declaration is processed, no definition is appended)
C11_FailFast ==
    [][/\ result = "err" => UNCHANGED vars
       /\ result' = "err" => (output' = None /\ idx' = idx /\ idx' < Len(prog))]_vars

\* a failure in the first of two declarations, after a synthesized definition was appended
C11_Witness ==
    /\ result = "err"
    /\ idx + 1 < Len(prog)
    /\ schema # <<>>
    /\ output = None

\* a function type that does not have exactly one parameter, or whose parameter
\* is not an identifier annotated with an object literal, anywhere in a type
RECURSIVE HasBadFn(_)
RECURSIVE AnyBadFn(_, _)

HasBadFn(ty) ==
    CASE ty.k = "fn" ->
           \/ ~IsFieldFn(ty)
           \/ AnyBadFn(ArgMembers(ty), 1)
           \/ HasBadFn(ty.ret)
      [] ty.k = "arr" -> HasBadFn(ty.elem)
      [] ty.k = "union" -> \E i \in 1..Len(ty.types) : HasBadFn(ty.types[i])
      [] ty.k = "ref" ->
           /\ ty.type_params # <<>>
           /\ \E i \in 1..Len(ty.type_params[1]) : HasBadFn(ty.type_params[1][i])
      [] ty.k = "lit" -> AnyBadFn(ty.members, 1)
      [] OTHER -> FALSE

AnyBadFn(members, i) ==
    /\ i <= Len(members)
    /\ \/ /\ members[i].k = "prop"
          /\ members[i].type_ann # <<>>
          /\ HasBadFn(members[i].type_ann[1])
       \/ AnyBadFn(members, i + 1)

\* the declaration at item n has, as its first property, a function type that
\* is not of the one accepted shape
FirstFieldIsBadFn(n) ==
    /\ prog[n].k = "alias"
    /\ prog[n].id \in DOMAIN manifest
    /\ prog[n].type_ann.k = "lit"
    /\ Len(prog[n].type_ann.members) >= 1
    /\ prog[n].type_ann.members[1].k = "prop"
    /\ prog[n].type_ann.members[1].type_ann # <<>>
    /\ prog[n].type_ann.members[1].type_ann[1].k = "fn"
    /\ ~IsFieldFn(prog[n].type_ann.members[1].type_ann[1])

\* C12: no accepted declaration holds a function type with zero or several
\* parameters, or with one parameter that is not an identifier annotated with
\* an object literal; and the step in which such a function type fails a
\* declaration appends no definition
C12_FunctionParameters ==
    /\ [](LastDeclared => ~AnyBadFn(LastMembers, 1))
    /\ [][(result' = "err" /\ FirstFieldIsBadFn(idx + 1)) => schema' = schema]_vars

\* a function type with two parameters has failed its declaration
C12_Witness ==
    /\ result = "err"
    /\ FirstFieldIsBadFn(idx + 1)
    /\ Len(prog[idx + 1].type_ann.members[1].type_ann[1].params) = 2
    /\ schema = <<>>

\* a member whose type is T | null or T | undefined with T an object literal
IsNullableLiteralMember(m) ==
    /\ m.k = "prop"
    /\ m.type_ann # <<>>
    /\ IsNullableOf(m.type_ann[1])
    /\ TheType(m.type_ann[1]).k = "lit"

\* the type the specification gives the argument built from member i
ExpectedLiteralArgType(f, members, i) ==
    LET ref == [t |-> "NamedType", name |-> ExpectedInputName(f, members, i)]
    IN  IF IsLiteralMember(members[i]) /\ ~members[i].optional
        THEN [t |-> "NonNull", ty |-> ref]
        ELSE ref

\* C13: in the step that accepts a declaration, the argument built from an
\* object-literal member of a function field's parameter has the member's name
\* and refers to the synthesized Input, wrapped in NonNull exactly when the
\* member is required; the argument built from a member of type literal | null
\* refers to it without NonNull whether the member is optional or not; and the
\* step appends exactly one Input definition of that name
C13_LiteralArguments ==
    [][(/\ result = "running"
        /\ idx' = idx + 1
        /\ prog[idx + 1].k = "alias"
        /\ prog[idx + 1].id \in DOMAIN manifest)
       => LET members == prog[idx + 1].type_ann.members
              def == schema'[Len(schema')]
          IN  \A j \in 1..Len(members) :
                  LET ty == members[j].type_ann[1]
                      f == members[j].key.sym
                  IN  IsFieldFn(ty) =>
                        \A i \in 1..Len(ArgMembers(ty)) :
                          LET m == ArgMembers(ty)[i]
                          IN  (IsLiteralMember(m) \/ IsNullableLiteralMember(m)) =>
                                /\ def.fields[j].args[i].name = m.key.sym
                                /\ def.fields[j].args[i].type_ =
                                       ExpectedLiteralArgType(f, ArgMembers(ty), i)
                                /\ Cardinality(
                                     {d \in (Len(schema) + 1)..Len(schema') :
                                        /\ schema'[d].kind = "Input"
                                        /\ schema'[d].name =
                                             ExpectedInputName(f, ArgMembers(ty), i)}) = 1]_vars

\* an accepted function field with a required literal member, an optional
\* literal member and a required member of type literal | null
C13_Witness ==
    /\ LastDeclared
    /\ \E j \in 1..Len(LastMembers) :
          /\ IsFieldFn(LastMembers[j].type_ann[1])
          /\ \E a, b, c \in 1..Len(ArgMembers(LastMembers[j].type_ann[1])) :
                LET ms == ArgMembers(LastMembers[j].type_ann[1])
                    args == LastDef.fields[j].args
                IN  /\ IsLiteralMember(ms[a]) /\ ~ms[a].optional
                    /\ args[a].type_.t = "NonNull"
                    /\ IsLiteralMember(ms[b]) /\ ms[b].optional
                    /\ args[b].type_.t = "NamedType"
                    /\ IsNullableLiteralMember(ms[c]) /\ ~ms[c].optional
                    /\ args[c].type_.t = "NamedType"

RECURSIVE HasNonNullElement(_)
HasNonNullElement(ty) ==
    CASE ty.t = "NamedType" -> FALSE
      [] ty.t = "List" -> ty.ty.t = "NonNull" \/ HasNonNullElement(ty.ty)
      [] ty.t = "NonNull" -> HasNonNullElement(ty.ty)

\* C15: in no type of the schema is the element type directly inside a List a NonNull
C15_ListElementsNullable ==
    \A ty \in SchemaTypes : ~HasNonNullElement(ty)

\* a union with two or more alternatives that are not null or undefined, or
\* with no null or undefined alternative
MalformedUnion(ty) ==
    /\ ty.k = "union"
    /\ \/ Cardinality({i \in 1..Len(ty.types) : ~IsNullKeyword(ty.types[i])}) >= 2
       \/ \A i \in 1..Len(ty.types) : ~IsNullKeyword(ty.types[i])

\* a malformed union as the type itself or as the operand of Promise
MalformedUnionIn(ty) ==
    \/ MalformedUnion(ty)
    \/ IsPromiseOf(ty) /\ MalformedUnion(Promised(ty))

\* C16: no accepted declaration has a malformed union as a property type, as
\* the type of a function-argument member, as a return type or as the operand
\* of Promise
C16_MalformedUnionsFail ==
    LastDeclared =>
        \A j \in 1..Len(LastMembers) :
            LET ty == LastMembers[j].type_ann[1]
            IN  /\ ~MalformedUnionIn(ty)
                /\ IsFieldFn(ty) =>
                      /\ ~MalformedUnionIn(ty.ret)
                      /\ \A i \in 1..Len(ArgMembers(ty)) :
                            ~MalformedUnionIn(ArgMembers(ty)[i].type_ann[1])

\* C17: a property of type T | null (or T | undefined) gets the type of T
\* without an outer NonNull, whether the property is required or optional; for
\* T a primitive, a manifest name or an array of them that type is the bare type of T
C17_NullableUnionTypes ==
    LastDeclared =>
        \A j \in 1..Len(LastMembers) :
            LET ty == LastMembers[j].type_ann[1]
            IN  IsNullableOf(ty) =>
                    /\ LastDef.fields[j].type_.t # "NonNull"
                    /\ IsArrayOfNames(TheType(ty)) =>
                          LastDef.fields[j].type_ = BareType(TheType(ty))

\* C17 for every T but Promise<X>
C17_NullableUnionTypesButPromise ==
    LastDeclared =>
        \A j \in 1..Len(LastMembers) :
            LET ty == LastMembers[j].type_ann[1]
            IN  (IsNullableOf(ty) /\ ~IsPromiseOf(TheType(ty))) =>
                    /\ LastDef.fields[j].type_.t # "NonNull"
                    /\ IsArrayOfNames(TheType(ty)) =>
                          LastDef.fields[j].type_ = BareType(TheType(ty))

\* the type the specification gives Promise<X>, X a primitive, a manifest name,
\* an array of them, or one of these | null: bare when X is a nullable union,
\* NonNull otherwise, whatever the optional flag
PromisedTypeKnown(x) ==
    \/ IsArrayOfNames(x)
    \/ IsNullableOf(x) /\ IsArrayOfNames(TheType(x))

ExpectedPromisedType(x) ==
    IF IsNullableOf(x)
    THEN BareType(TheType(x))
    ELSE [t |-> "NonNull", ty |-> BareType(x)]

\* C18: the type resolved for Promise<X> is the same for a required and for an
\* optional property, for a required and for an optional argument member, and
\* as a return type: bare when X is a nullable union, NonNull(X) otherwise
C18_PromiseIgnoresOptional ==
    LastDeclared =>
        \A j \in 1..Len(LastMembers) :
            LET ty == LastMembers[j].type_ann[1]
            IN  /\ (IsPromiseOf(ty) /\ PromisedTypeKnown(Promised(ty))) =>
                      LastDef.fields[j].type_ = ExpectedPromisedType(Promised(ty))
                /\ IsFieldFn(ty) =>
                      /\ (IsPromiseOf(ty.ret) /\ PromisedTypeKnown(Promised(ty.ret))) =>
                            LastDef.fields[j].type_ = ExpectedPromisedType(Promised(ty.ret))
                      /\ \A i \in 1..Len(ArgMembers(ty)) :
                            LET a == ArgMembers(ty)[i].type_ann[1]
                            IN  (IsPromiseOf(a) /\ PromisedTypeKnown(Promised(a))) =>
                                    LastDef.fields[j].args[i].type_ =
                                        ExpectedPromisedType(Promised(a))

\* C18 for return types only
C18_PromisedReturnIgnoresOptional ==
    LastDeclared =>
        \A j \in 1..Len(LastMembers) :
            LET ty == LastMembers[j].type_ann[1]
            IN  (IsFieldFn(ty) /\ IsPromiseOf(ty.ret) /\ PromisedTypeKnown(Promised(ty.ret))) =>
                    LastDef.fields[j].type_ = ExpectedPromisedType(Promised(ty.ret))

\* the unsupported shapes of a property's type
UnsupportedFieldType(ty) ==
    \/ ty.k = "kw" /\ ~IsPrimitive(ty)
    \/ ty.k = "lit"
    \/ ty.k = "arr" /\ ty.elem.k = "lit"
    \/ ty.k = "intersection"
    \/ ty.k = "ref" /\ ty.type_name.k # "ident"

\* a manifest-listed declaration whose body is not an object literal or that
\* has a property of an unsupported type
UnsupportedDecl(stmt) ==
    /\ stmt.k = "alias"
    /\ stmt.id \in DOMAIN manifest
    /\ \/ stmt.type_ann.k # "lit"
       \/ \E j \in 1..Len(stmt.type_ann.members) :
             LET m == stmt.type_ann.members[j]
             IN  m.k = "prop" /\ m.type_ann # <<>> /\ UnsupportedFieldType(m.type_ann[1])

\* C19: the translation never ends abnormally, and a declaration of an
\* unsupported shape is never accepted
C19_UnsupportedShapesReturnError ==
    /\ result # "panic"
    /\ LastDeclared => ~UnsupportedDecl(LastDecl)

\* C19 without the abnormal endings: no declaration of an unsupported shape is accepted
C19_UnsupportedShapesNotAccepted ==
    LastDeclared => ~UnsupportedDecl(LastDecl)

\* the manifest tags the innermost name of the type with the given kind
InnermostTagged(ty, kind) ==
    /\ InnermostName(ty) \in DOMAIN manifest
    /\ manifest[InnermostName(ty)] = kind

\* C20: in a successful translation no input field and no argument refers to
\* a name the manifest tags Object, and no field of an Object definition has
\* a type that refers to a name the manifest tags Input
C20_PositionalKinds ==
    result = "ok" =>
        \A d \in 1..Len(schema) :
            \A i \in 1..Len(schema[d].fields) :
                LET f == schema[d].fields[i]
                IN  IF schema[d].kind = "Input"
                    THEN ~InnermostTagged(f.type_, "Object")
                    ELSE /\ ~InnermostTagged(f.type_, "Input")
                         /\ \A a \in 1..Len(f.args) :
                               ~InnermostTagged(f.args[a].type_, "Object")

\* C20 for the result types of Object definitions only
C20_ObjectFieldKinds ==
    result = "ok" =>
        \A d \in 1..Len(schema) :
            \A i \in 1..Len(schema[d].fields) :
                schema[d].kind = "Object" =>
                    ~InnermostTagged(schema[d].fields[i].type_, "Input")

\* the declaration at item n is tagged Input and has one property, whose type
\* is another manifest name tagged Input
InputDeclWithInputField(n) ==
    /\ prog[n].k = "alias"
    /\ prog[n].id \in DOMAIN manifest
    /\ manifest[prog[n].id] = "Input"
    /\ prog[n].type_ann.k = "lit"
    /\ Len(prog[n].type_ann.members) = 1
    /\ prog[n].type_ann.members[1].k = "prop"
    /\ prog[n].type_ann.members[1].type_ann # <<>>
    /\ IsManifestRef(prog[n].type_ann.members[1].type_ann[1])
    /\ manifest[prog[n].type_ann.members[1].type_ann[1].type_name.sym] = "Input"
    /\ prog[n].type_ann.members[1].type_ann[1].type_name.sym # prog[n].id

\* C21: a declaration tagged Input whose property refers to a manifest name
\* tagged Input does not fail, and once accepted the property is an input
\* field of that name, NonNull when the property is required
C21_NestedInputFields ==
    /\ (result \in {"err", "panic"} => ~InputDeclWithInputField(idx + 1))
    /\ (LastDeclared /\ InputDeclWithInputField(idx)) =>
           LET m == LastMembers[1]
           IN  LastDef.fields[1].type_ =
                   IF m.optional
                   THEN BareType(m.type_ann[1])
                   ELSE [t |-> "NonNull", ty |-> BareType(m.type_ann[1])]

\* the step of the driver that accepts a manifest-listed declaration
AcceptsDeclaration ==
    /\ result = "running"
    /\ idx' = idx + 1
    /\ prog[idx + 1].k = "alias"
    /\ prog[idx + 1].id \in DOMAIN manifest

FieldKindOf(stmt) == IF manifest[stmt.id] = "Input" THEN "Input" ELSE "Object"

\* the context in which property j of a declaration is resolved: the one the
\* properties before it leave behind
CtxAtField(ctx, stmt, j) ==
    do_parse_fields_from(ctx, FieldKindOf(stmt),
                         SubSeq(stmt.type_ann.members, 1, j - 1), 1, <<>>).ctx

\* the context in which member i of the parameter of a function type is
\* resolved: parsing_inputs is set, then the members before it are resolved
CtxAtArgMember(ctx, field_name, members, i) ==
    do_parse_arg_members([ctx EXCEPT !.parsing_inputs = TRUE], field_name,
                         SubSeq(members, 1, i - 1), Len(members), 1).ctx

\* C22: in the step that accepts a declaration, parsing_inputs is true at the
\* moment each member of a function field's parameter is resolved, from the
\* first member to the last
C22_InputFlagAtEveryMember ==
    [][AcceptsDeclaration =>
         LET stmt == prog[idx + 1]
             members == stmt.type_ann.members
         IN  \A j \in 1..Len(members) :
                 LET ty == members[j].type_ann[1]
                 IN  IsFieldFn(ty) =>
                       \A i \in 1..Len(ArgMembers(ty)) :
                           CtxAtArgMember(CtxAtField(Ctx, stmt, j), members[j].key.sym,
                                          ArgMembers(ty), i).parsing_inputs]_vars

\* C22 for the members that no function-typed member precedes
C22_InputFlagBeforeFunctionMember ==
    [][AcceptsDeclaration =>
         LET stmt == prog[idx + 1]
             members == stmt.type_ann.members
         IN  \A j \in 1..Len(members) :
                 LET ty == members[j].type_ann[1]
                 IN  IsFieldFn(ty) =>
                       \A i \in 1..Len(ArgMembers(ty)) :
                           (\A h \in 1..(i - 1) : ArgMembers(ty)[h].type_ann[1].k # "fn") =>
                               CtxAtArgMember(CtxAtField(Ctx, stmt, j), members[j].key.sym,
                                              ArgMembers(ty), i).parsing_inputs]_vars

\* a reference to an identifier other than Promise that the manifest does not list
IsUnlistedRef(ty) ==
    /\ ty.k = "ref"
    /\ ty.type_name.k = "ident"
    /\ ty.type_name.sym # StrPromise
    /\ ty.type_name.sym \notin DOMAIN manifest

\* such a reference somewhere in a type the resolver walks: in field position,
\* in an argument member, in a return type, through arrays, Promise, T | null
\* and the properties of object literals
RECURSIVE RefersToUnlisted(_)
RefersToUnlisted(ty) ==
    CASE ty.k = "arr" -> RefersToUnlisted(ty.elem)
      [] IsPromiseOf(ty) -> RefersToUnlisted(Promised(ty))
      [] IsNullableOf(ty) -> RefersToUnlisted(TheType(ty))
      [] IsFieldFn(ty) ->
           \/ RefersToUnlisted(ty.ret)
           \/ \E i \in 1..Len(ArgMembers(ty)) :
                 RefersToUnlisted(ArgMembers(ty)[i].type_ann[1])
      [] ty.k = "lit" ->
           \E i \in 1..Len(ty.members) : RefersToUnlisted(ty.members[i].type_ann[1])
      [] OTHER -> IsUnlistedRef(ty)

\* the declaration at item n is manifest-listed and its one property has an
\* unlisted reference as its type
FieldIsUnlistedRef(n) ==
    /\ prog[n].k = "alias"
    /\ prog[n].id \in DOMAIN manifest
    /\ prog[n].type_ann.k = "lit"
    /\ Len(prog[n].type_ann.members) = 1
    /\ prog[n].type_ann.members[1].k = "prop"
    /\ prog[n].type_ann.members[1].type_ann # <<>>
    /\ IsUnlistedRef(prog[n].type_ann.members[1].type_ann[1])

NextIsUnlistedAlias ==
    /\ result = "running"
    /\ idx < Len(prog)
    /\ prog[idx + 1].k = "alias"
    /\ prog[idx + 1].id \notin DOMAIN manifest

\* C24: the step over a type alias the manifest does not list passes the item
\* and changes nothing else: nothing is appended to the schema, the flags are
\* kept and the translation goes on, whatever the body of the alias
C24_UnlistedAliasSkipped ==
    [][NextIsUnlistedAlias =>
         /\ idx' = idx + 1
         /\ UNCHANGED <<schema, parsing_inputs, parsing_output, result, output>>]_vars

\* an unlisted alias whose body refers to a manifest name has been passed
\* after a definition was appended
C24_Witness ==
    /\ result = "running"
    /\ idx >= 1
    /\ prog[idx].k = "alias"
    /\ prog[idx].id \notin DOMAIN manifest
    /\ prog[idx].type_ann.k = "lit"
    /\ \E j \in 1..Len(prog[idx].type_ann.members) :
          IsManifestRef(prog[idx].type_ann.members[j].type_ann[1])
    /\ schema # <<>>

\* C25: the step that accepts a manifest-listed declaration appends exactly
\* one definition with the declaration's name: an Input when the manifest tags
\* the name Input, an Object otherwise, with one field per property in source order
C25_OneDefinitionPerDeclaration ==
    [][AcceptsDeclaration =>
         LET stmt == prog[idx + 1]
             named == {d \in (Len(schema) + 1)..Len(schema') : schema'[d].name = stmt.id}
         IN  /\ Cardinality(named) = 1
             /\ \A d \in named :
                   /\ schema'[d].kind = FieldKindOf(stmt)
                   /\ FieldNamesOf(schema'[d]) = KeyNames(stmt.type_ann.members)]_vars

\* C25 for the last definition the step appends: it has the declaration's
\* name, the kind the manifest gives and one field per property in source order
C25_DeclarationDefinitionLast ==
    [][AcceptsDeclaration =>
         LET stmt == prog[idx + 1]
             def == schema'[Len(schema')]
         IN  /\ Len(schema') > Len(schema)
             /\ def.name = stmt.id
             /\ def.kind = FieldKindOf(stmt)
             /\ FieldNamesOf(def) = KeyNames(stmt.type_ann.members)]_vars

\* the declaration at item n is tagged Input and its one property has a
\* function type of the accepted shape
InputDeclWithFieldFn(n) ==
    /\ prog[n].k = "alias"
    /\ prog[n].id \in DOMAIN manifest
    /\ manifest[prog[n].id] = "Input"
    /\ prog[n].type_ann.k = "lit"
    /\ Len(prog[n].type_ann.members) = 1
    /\ prog[n].type_ann.members[1].k = "prop"
    /\ prog[n].type_ann.members[1].type_ann # <<>>
    /\ IsFieldFn(prog[n].type_ann.members[1].type_ann[1])

\* the object literal an argument member synthesizes an Input from, if any
ArgLiteralOf(m) ==
    IF IsLiteralMember(m) THEN <<m.type_ann[1]>>
    ELSE IF IsNullableLiteralMember(m) THEN <<TheType(m.type_ann[1])>>
    ELSE <<>>

HasFnProperty(lit) ==
    \E p \in 1..Len(lit.members) :
        /\ lit.members[p].k = "prop"
        /\ lit.members[p].type_ann # <<>>
        /\ lit.members[p].type_ann[1].k = "fn"

\* C26: no accepted declaration tagged Input has a function-typed property,
\* no accepted function field has an argument literal with a function-typed
\* property, an Input declaration with a function-typed property ends in an
\* error, and no field of an Input definition carries arguments
C26_NoArgumentsOnInputFields ==
    /\ LastDeclared =>
           /\ manifest[LastDecl.id] = "Input" =>
                  \A j \in 1..Len(LastMembers) : LastMembers[j].type_ann[1].k # "fn"
           /\ \A j \in 1..Len(LastMembers) :
                  IsFieldFn(LastMembers[j].type_ann[1]) =>
                      \A i \in 1..Len(ArgMembers(LastMembers[j].type_ann[1])) :
                          LET lit == ArgLiteralOf(ArgMembers(LastMembers[j].type_ann[1])[i])
                          IN  lit # <<>> => ~HasFnProperty(lit[1])
    /\ (result \in {"ok", "panic"} /\ idx < Len(prog)) => ~InputDeclWithFieldFn(idx + 1)
    /\ \A d \in 1..Len(schema) :
           schema[d].kind = "Input" =>
               \A i \in 1..Len(schema[d].fields) : "args" \notin DOMAIN schema[d].fields[i]

\* an Input declaration with a function-typed property has failed with an error
C26_Witness ==
    /\ result = "err"
    /\ InputDeclWithFieldFn(idx + 1)

\* a reference to a name the manifest tags Enum
IsEnumRef(ty) == IsManifestRef(ty) /\ manifest[ty.type_name.sym] = "Enum"

\* NamedType(name), wrapped in NonNull when the position is required
EnumTypeOf(ty, optional) ==
    IF optional
    THEN [t |-> "NamedType", name |-> ty.type_name.sym]
    ELSE [t |-> "NonNull", ty |-> [t |-> "NamedType", name |-> ty.type_name.sym]]

\* a declaration whose one property refers to manifest names of kind Enum
\* only: an Enum reference, or a function whose argument members are Enum
\* references or primitives and whose return type is an Enum reference or a
\* Promise of one
OnlyEnumReferences(stmt) ==
    /\ stmt.k = "alias"
    /\ stmt.id \in DOMAIN manifest
    /\ stmt.type_ann.k = "lit"
    /\ Len(stmt.type_ann.members) = 1
    /\ stmt.type_ann.members[1].k = "prop"
    /\ stmt.type_ann.members[1].key.k = "ident"
    /\ stmt.type_ann.members[1].type_ann # <<>>
    /\ LET ty == stmt.type_ann.members[1].type_ann[1]
       IN  \/ IsEnumRef(ty)
           \/ /\ IsFieldFn(ty)
              /\ manifest[stmt.id] # "Input"
              /\ ArgMembers(ty) # <<>>
              /\ \A i \in 1..Len(ArgMembers(ty)) :
                    /\ ArgMembers(ty)[i].k = "prop"
                    /\ ArgMembers(ty)[i].key.k = "ident"
                    /\ ArgMembers(ty)[i].type_ann # <<>>
                    /\ \/ IsEnumRef(ArgMembers(ty)[i].type_ann[1])
                       \/ IsPrimitive(ArgMembers(ty)[i].type_ann[1])
              /\ \/ IsEnumRef(ty.ret)
                 \/ IsPromiseOf(ty.ret) /\ IsEnumRef(Promised(ty.ret))

\* C27: an Enum reference becomes NamedType(name) as a property, as an
\* argument member and as a returned or promised type, and a declaration
\* whose references are all to Enum names is never rejected
C27_EnumReferences ==
    /\ LastDeclared =>
           \A j \in 1..Len(LastMembers) :
               LET m == LastMembers[j]
                   ty == m.type_ann[1]
               IN  /\ IsEnumRef(ty) => LastDef.fields[j].type_ = EnumTypeOf(ty, m.optional)
                   /\ IsFieldFn(ty) =>
                          /\ \A i \in 1..Len(ArgMembers(ty)) :
                                IsEnumRef(ArgMembers(ty)[i].type_ann[1]) =>
                                    LastDef.fields[j].args[i].type_ =
                                        EnumTypeOf(ArgMembers(ty)[i].type_ann[1],
                                                   ArgMembers(ty)[i].optional)
                          /\ IsEnumRef(ty.ret) =>
                                 LastDef.fields[j].type_ = EnumTypeOf(ty.ret, TRUE)
                          /\ (IsPromiseOf(ty.ret) /\ IsEnumRef(Promised(ty.ret))) =>
                                 LastDef.fields[j].type_ = EnumTypeOf(Promised(ty.ret), FALSE)
    /\ (result \in {"err", "panic"} /\ idx < Len(prog)) => ~OnlyEnumReferences(prog[idx + 1])

\* a declaration with an Enum reference as an argument member and as the
\* promised type has been accepted
C27_Witness ==
    /\ LastDeclared
    /\ OnlyEnumReferences(LastDecl)
    /\ IsFieldFn(LastMembers[1].type_ann[1])
    /\ IsEnumRef(ArgMembers(LastMembers[1].type_ann[1])[1].type_ann[1])
    /\ IsPromiseOf(LastMembers[1].type_ann[1].ret)
    /\ LastDef.fields[1].args[1].type_.t = "NonNull"

\* a reference named Promise without exactly one type parameter
IsBadPromise(ty) ==
    /\ ty.k = "ref"
    /\ ty.type_name.k = "ident"
    /\ ty.type_name.sym = StrPromise
    /\ (ty.type_params = <<>> \/ Len(ty.type_params[1]) # 1)

\* such a reference somewhere in a type the resolver walks
RECURSIVE HasBadPromise(_)
HasBadPromise(ty) ==
    CASE ty.k = "arr" -> HasBadPromise(ty.elem)
      [] IsPromiseOf(ty) -> HasBadPromise(Promised(ty))
      [] IsNullableOf(ty) -> HasBadPromise(TheType(ty))
      [] IsFieldFn(ty) ->
           \/ HasBadPromise(ty.ret)
           \/ \E i \in 1..Len(ArgMembers(ty)) :
                 HasBadPromise(ArgMembers(ty)[i].type_ann[1])
      [] ty.k = "lit" ->
           \E i \in 1..Len(ty.members) : HasBadPromise(ty.members[i].type_ann[1])
      [] OTHER -> IsBadPromise(ty)

\* the declaration at item n is manifest-listed and its one property has such
\* a reference as its type
FieldIsBadPromise(n) ==
    /\ prog[n].k = "alias"
    /\ prog[n].id \in DOMAIN manifest
    /\ prog[n].type_ann.k = "lit"
    /\ Len(prog[n].type_ann.members) = 1
    /\ prog[n].type_ann.members[1].k = "prop"
    /\ prog[n].type_ann.members[1].key.k = "ident"
    /\ prog[n].type_ann.members[1].type_ann # <<>>
    /\ IsBadPromise(prog[n].type_ann.members[1].type_ann[1])

\* C28: no accepted declaration has, in field, argument or return position, a
\* reference named Promise without exactly one type parameter; a property of
\* such a type ends the translation in an error; and no type of the schema is
\* named Promise, also when the manifest lists that name
C28_PromiseTypeParameters ==
    /\ LastDeclared =>
           \A j \in 1..Len(LastMembers) : ~HasBadPromise(LastMembers[j].type_ann[1])
    /\ (idx < Len(prog) /\ FieldIsBadPromise(idx + 1)) => result \in {"running", "err"}
    /\ \A ty \in SchemaTypes : InnermostName(ty) # StrPromise

\* a property typed Promise with two type parameters has failed with an
\* error, under a manifest that lists the name Promise
C28_Witness ==
    /\ result = "err"
    /\ StrPromise \in DOMAIN manifest
    /\ FieldIsBadPromise(idx + 1)
    /\ prog[idx + 1].type_ann.members[1].type_ann[1].type_params # <<>>
    /\ Len(prog[idx + 1].type_ann.members[1].type_ann[1].type_params[1]) = 2

\* a declaration with the optional mark of every function-typed property inverted
FlipFunctionProperties(stmt) ==
    LET ms == stmt.type_ann.members
        flipped == [j \in 1..Len(ms) |->
                       IF ms[j].type_ann[1].k = "fn"
                       THEN [ms[j] EXCEPT !.optional = ~ms[j].optional]
                       ELSE ms[j]]
    IN  [stmt EXCEPT !.type_ann = Lit(flipped)]

\* C29: a function field whose return type is a bare primitive, a
\* manifest-listed name or an array of them has that type without an outer
\* NonNull, whether the property is optional or required; and the declaration
\* with the optional marks of its function-typed properties inverted is
\* accepted in the same step with the same definitions
C29_FunctionFieldIgnoresOptional ==
    /\ [](LastDeclared =>
            \A j \in 1..Len(LastMembers) :
                LET ty == LastMembers[j].type_ann[1]
                IN  (IsFieldFn(ty) /\ IsArrayOfNames(ty.ret)) =>
                        LastDef.fields[j].type_ = BareType(ty.ret))
    /\ [][AcceptsDeclaration =>
            LET r == parse_statement(Ctx, FlipFunctionProperties(prog[idx + 1]))
            IN  r.st = "ok" /\ r.ctx.schema = schema']_vars

\* a required function-typed property returning a bare manifest-listed name
\* has been accepted with the bare named type
C29_Witness ==
    /\ LastDeclared
    /\ Len(LastMembers) = 1
    /\ ~LastMembers[1].optional
    /\ IsFieldFn(LastMembers[1].type_ann[1])
    /\ IsManifestRef(LastMembers[1].type_ann[1].ret)
    /\ LastDef.fields[1].type_ =
           [t |-> "NamedType", name |-> LastMembers[1].type_ann[1].ret.type_name.sym]

SameFlags(c, d) ==
    /\ c.parsing_inputs = d.parsing_inputs
    /\ c.parsing_output = d.parsing_output

\* the context in which the return type of function field j is resolved
CtxAtReturn(ctx, stmt, j) ==
    LET m == stmt.type_ann.members[j]
        a == CtxAtArgMember(CtxAtField(ctx, stmt, j), m.key.sym,
                            ArgMembers(m.type_ann[1]), Len(ArgMembers(m.type_ann[1])) + 1)
    IN  [a EXCEPT !.parsing_inputs = FALSE, !.parsing_output = TRUE]

\* the context in which property p of the object literal a function field
\* promises is resolved
CtxAtReturnMember(ctx, stmt, j, p) ==
    do_parse_fields_from(CtxAtReturn(ctx, stmt, j), "Object",
                         SubSeq(Promised(stmt.type_ann.members[j].type_ann[1].ret).members,
                                1, p - 1), 1, <<>>).ctx

\* C30: both flags are false whenever the driver is about to take an item,
\* and in the step that accepts a declaration every function type leaves the
\* flags as it found them: a function-typed property of the declaration, a
\* function-typed member of a parameter, and a function-typed property of
\* the object literal a function field promises
C30_FunctionTypeRestoresFlags ==
    /\ [](result = "running" => ~parsing_inputs /\ ~parsing_output)
    /\ [][AcceptsDeclaration =>
            LET stmt == prog[idx + 1]
                members == stmt.type_ann.members
            IN  \A j \in 1..Len(members) :
                    LET ty == members[j].type_ann[1]
                        c == CtxAtField(Ctx, stmt, j)
                    IN  IsFieldFn(ty) =>
                          /\ SameFlags(c, CtxAtField(Ctx, stmt, j + 1))
                          /\ \A i \in 1..Len(ArgMembers(ty)) :
                                ArgMembers(ty)[i].type_ann[1].k = "fn" =>
                                    SameFlags(CtxAtArgMember(c, members[j].key.sym,
                                                             ArgMembers(ty), i),
                                              CtxAtArgMember(c, members[j].key.sym,
                                                             ArgMembers(ty), i + 1))
                          /\ (IsPromiseOf(ty.ret) /\ Promised(ty.ret).k = "lit") =>
                                \A p \in 1..Len(Promised(ty.ret).members) :
                                    Promised(ty.ret).members[p].type_ann[1].k = "fn" =>
                                        SameFlags(CtxAtReturnMember(Ctx, stmt, j, p),
                                                  CtxAtReturnMember(Ctx, stmt, j, p + 1))]_vars

\* C30 for the driver and for the function-typed properties of a declaration
C30_FlagsClearBetweenDeclarations ==
    /\ [](result = "running" => ~parsing_inputs /\ ~parsing_output)
    /\ [][AcceptsDeclaration =>
            LET stmt == prog[idx + 1]
                members == stmt.type_ann.members
            IN  \A j \in 1..Len(members) :
                    IsFieldFn(members[j].type_ann[1]) =>
                        SameFlags(CtxAtField(Ctx, stmt, j), CtxAtField(Ctx, stmt, j + 1))]_vars

====
